---- MODULE Spec2Model ----
(***************************************************************************)
(* GitFS: a read-only filesystem view of a git repository.                 *)
(*                                                                         *)
(* A path string is modelled by its list of "/"-separated segments:        *)
(* "/head/b" is <<"", "head", "b">>, "" is <<"">>, "/" is <<"", "">>.      *)
(* A ref name is modelled the same way: "a/b" is <<"a", "b">>.             *)
(* The repository is the data the object store hands out: objects by id    *)
(* (type, size in the object database, tree entries or blob bytes),        *)
(* commits, HEAD, tags, branches and remotes. Repositories here hold no    *)
(* submodules, every ref points at a commit, and path segments are not     *)
(* "." or "..". The access namespace of the info (permissions) is left     *)
(* out: no property below reads it.                                        *)
(***************************************************************************)
EXTENDS Integers, Sequences, FiniteSets, TLC

VARIABLES repo, path, op, result, stream, sres

vars == <<repo, path, op, result, stream, sres>>

\* ---------------------------------------------------------------- bounds
MaxSegs == 3
MaxPage == 1
MaxRead == 1
MaxSeek == 3

\* ------------------------------------------------------- program constants
\* int(ResourceType.directory), int(ResourceType.file) of the host framework
ResourceTypeDirectory == 1
ResourceTypeFile == 2

\* ------------------------------------------------------------ repositories
\* HEAD tree c1: a/ (holding b) and b; one branch, one tag, one remote.
RepoPlain ==
  [ objs |-> [ t1 |-> [type |-> "tree", size |-> 57, data |-> <<>>,
                       entries |-> << [name |-> "a", id |-> "t2"],
                                      [name |-> "b", id |-> "b1"] >>],
               t2 |-> [type |-> "tree", size |-> 29, data |-> <<>>,
                       entries |-> << [name |-> "b", id |-> "b2"] >>],
               b1 |-> [type |-> "blob", size |-> 3, data |-> <<7, 8, 9>>, entries |-> <<>>],
               b2 |-> [type |-> "blob", size |-> 0, data |-> <<>>, entries |-> <<>>] ],
    commits |-> [c1 |-> "t1", c2 |-> "t2"],
    head |-> "c1",
    tags |-> << [name |-> <<"b">>, commit |-> "c2"] >>,
    branches |-> << [name |-> <<"a">>, commit |-> "c1"] >>,
    remotes |-> << [name |-> "a",
                    refs |-> << [name |-> <<"a", "a">>, commit |-> "c1"],
                                [name |-> <<"a", "b">>, commit |-> "c2"] >>] >> ]

\* HEAD tree c1: the blob a sorts before the tree b; ref names hold a "/".
RepoSlash ==
  [ objs |-> [ t1 |-> [type |-> "tree", size |-> 57, data |-> <<>>,
                       entries |-> << [name |-> "a", id |-> "b1"],
                                      [name |-> "b", id |-> "t2"] >>],
               t2 |-> [type |-> "tree", size |-> 29, data |-> <<>>,
                       entries |-> << [name |-> "a", id |-> "b2"] >>],
               b1 |-> [type |-> "blob", size |-> 2, data |-> <<5, 6>>, entries |-> <<>>],
               b2 |-> [type |-> "blob", size |-> 1, data |-> <<4>>, entries |-> <<>>] ],
    commits |-> [c1 |-> "t1", c2 |-> "t2"],
    head |-> "c1",
    tags |-> << >>,
    branches |-> << [name |-> <<"a">>, commit |-> "c1"],
                    [name |-> <<"a", "b">>, commit |-> "c2"] >>,
    remotes |-> << [name |-> "b",
                    refs |-> << [name |-> <<"b", "a", "b">>, commit |-> "c1"] >>] >> ]

Repos == {RepoPlain, RepoSlash}

\* ------------------------------------------------------------------ inputs
Names == {"", "head", "tags", "branches", "remotes", "objects", "a", "b"}

Paths == UNION {[1..n -> Names] : n \in 1..MaxSegs}

NoPage == <<>>

Pages == {NoPage} \cup ((0..MaxPage) \X (0..MaxPage))

NoMode == ""

Modes == {"r", "w"}

\* ------------------------------------------------------- store collaborator
\* The handle the store gives for object id reached under `name`: its name,
\* type and size attributes (the mode, read only for the access namespace of
\* the info, is left out with that namespace).
StoreObj(r, id, name) ==
  [name |-> name, type |-> r.objs[id].type, size |-> r.objs[id].size, id |-> id]

\* commit.tree: the commit's root tree, which has no name of its own.
CommitTree(r, commit) == StoreObj(r, r.commits[commit], "")

\* tree.trees and tree.blobs: the entries of one type, in the tree's order.
EntriesOfType(r, tree, type) ==
  SelectSeq(r.objs[tree.id].entries, LAMBDA e : r.objs[e.id].type = type)

\* ------------------------------------------------------------------ helpers
RECURSIVE LStrip(_)
LStrip(s) ==
  IF s = <<>> THEN <<>>
  ELSE IF Head(s) = "" THEN LStrip(Tail(s)) ELSE s

RECURSIVE RStrip(_)
RStrip(s) ==
  IF s = <<>> THEN <<>>
  ELSE IF s[Len(s)] = "" THEN RStrip(SubSeq(s, 1, Len(s) - 1)) ELSE s

\* path.strip("/") followed by `if path:` / path.split("/")
StripSplit(p) == RStrip(LStrip(p))

\* fs.path.split(name)[1]: the part after the last "/"
SplitTail(name) == name[Len(name)]

\* IterableList.__getitem__(index): the items whose id attribute is `id`
\* (the list's prefix + index); none raises IndexError.
Lookup(items, id) == SelectSeq(items, LAMBDA it : it.name = id)

\* ------------------------------------------------------------------- nodes
\* GitInfo telling a directory by the store's type "tree" alone.
GitInfoTreeOnly(git_obj, name) ==
  [name |-> IF git_obj.name # "" THEN git_obj.name ELSE name,
   is_dir |-> git_obj.type = "tree",
   type |-> IF git_obj.type = "tree" THEN ResourceTypeDirectory ELSE ResourceTypeFile,
   size |-> git_obj.size]

\* GitInfo(git_obj, name): the basic and details namespaces of the info.
GitInfo(git_obj, name) ==
  [name |-> IF git_obj.name # "" THEN git_obj.name ELSE name,
   is_dir |-> git_obj.type # "blob",
   type |-> IF git_obj.type # "blob" THEN ResourceTypeDirectory ELSE ResourceTypeFile,
   size |-> git_obj.size]

\* VDir.__init__ and the constructors of its subclasses.
VDir(cls, name) == [cls |-> cls, name |-> name, type |-> "dir", size |-> 0]

RootDir == VDir("RootDir", "/")

RefsDir(name, refs, prefix) ==
  [cls |-> "RefsDir", name |-> name, type |-> "dir", size |-> 0,
   refs |-> refs, prefix |-> prefix]

RemotesDir(name, remotes) ==
  [cls |-> "RemotesDir", name |-> name, type |-> "dir", size |-> 0,
   remotes |-> remotes]

ObjectsDir(name) == VDir("ObjectsDir", name)

Blob(blob) == [cls |-> "Blob", blob |-> blob]

TreeDir(name, tree) == [cls |-> "TreeDir", name |-> name, tree |-> tree]

\* The children in sorted order instead of the declared one.
ChildNamesSorted == <<"branches", "head", "objects", "remotes", "tags">>

\* RootDir.children, in the order the mapping declares them.
ChildNames == <<"head", "tags", "branches", "remotes", "objects">>

Child(r, name) ==
  CASE name = "head" -> TreeDir("head", CommitTree(r, r.head))
    [] name = "tags" -> RefsDir("tags", r.tags, <<>>)
    [] name = "branches" -> RefsDir("branches", r.branches, <<>>)
    [] name = "remotes" -> RemotesDir("remotes", r.remotes)
    [] name = "objects" -> ObjectsDir("objects")

\* What a call on a node gives: the exception it raises ("" when it returns)
\* and the value it returns.
Returns(v) == [exc |-> "", val |-> v]

Raises(e) == [exc |-> e, val |-> <<>>]

\* obj.getinfo()
NodeInfo(obj) ==
  CASE obj.cls = "Blob" -> GitInfo(obj.blob, "")
    [] obj.cls = "TreeDir" -> GitInfo(obj.tree, obj.name)
    [] OTHER -> GitInfo(obj, "")

\* obj.get(name)
Get(r, obj, name) ==
  CASE obj.cls = "RootDir" ->
         IF \E i \in 1..Len(ChildNames) : ChildNames[i] = name
         THEN Returns(Child(r, name))
         ELSE Raises("KeyError")
    [] obj.cls = "TreeDir" ->
         LET found == SelectSeq(r.objs[obj.tree.id].entries, LAMBDA e : e.name = name)
         IN IF found = <<>> THEN Raises("KeyError")
            ELSE LET git_obj == StoreObj(r, found[1].id, name)
                 IN IF git_obj.type = "blob" THEN Returns(Blob(git_obj))
                    ELSE Returns(TreeDir(name, git_obj))
    [] obj.cls = "RefsDir" ->
         LET found == Lookup(obj.refs, obj.prefix \o <<name>>)
         IN IF found = <<>> THEN Raises("IndexError")
            ELSE Returns(TreeDir(name, CommitTree(r, found[1].commit)))
    [] obj.cls = "RemotesDir" ->
         LET found == Lookup(obj.remotes, name)
         IN IF found = <<>> THEN Raises("IndexError")
            ELSE Returns(RefsDir(name, found[1].refs, <<name>>))
    [] obj.cls = "ObjectsDir" -> Raises("AttributeError")
    [] OTHER -> Raises("NotImplementedError")

\* obj.scandir(), the whole sequence it yields
Scandir(r, obj) ==
  CASE obj.cls = "RootDir" ->
         Returns([i \in 1..Len(ChildNames) |-> NodeInfo(Child(r, ChildNames[i]))])
    [] obj.cls = "TreeDir" ->
         Returns([i \in 1..Len(EntriesOfType(r, obj.tree, "tree")) |->
                    GitInfo(StoreObj(r, EntriesOfType(r, obj.tree, "tree")[i].id,
                                     EntriesOfType(r, obj.tree, "tree")[i].name), "")]
                 \o
                 [i \in 1..Len(EntriesOfType(r, obj.tree, "blob")) |->
                    GitInfo(StoreObj(r, EntriesOfType(r, obj.tree, "blob")[i].id,
                                     EntriesOfType(r, obj.tree, "blob")[i].name), "")])
    [] obj.cls = "RefsDir" ->
         Returns([i \in 1..Len(obj.refs) |->
                    GitInfo(CommitTree(r, obj.refs[i].commit), SplitTail(obj.refs[i].name))])
    [] obj.cls = "RemotesDir" ->
         Returns([i \in 1..Len(obj.remotes) |->
                    NodeInfo(RefsDir(obj.remotes[i].name, obj.remotes[i].refs,
                                     <<obj.remotes[i].name>>))])
    [] OTHER -> Raises("NotImplementedError")

\* GitFile(blob): the blob's bytes read from the object database at open time
GitFile(r, blob) == [data |-> r.objs[blob.id].data, pos |-> 0]

\* obj.openbin()
NodeOpenbin(r, obj) ==
  IF obj.cls = "Blob" THEN Returns(GitFile(r, obj.blob))
  ELSE Raises("NotImplementedError")

\* ------------------------------------------------------------------ facade
\* The for loop of _get_obj_by_path: obj = obj.get(part) for each part.
RECURSIVE Walk(_, _, _)
Walk(r, obj, parts) ==
  IF parts = <<>> THEN Returns(obj)
  ELSE LET g == Get(r, obj, Head(parts))
       IN IF g.exc # "" THEN g ELSE Walk(r, g.val, Tail(parts))

\* The exceptions _get_obj_by_path turns into ResourceNotFound.
Caught == {"IndexError", "KeyError", "NotImplementedError"}

GetObjByPath(r, p) ==
  LET w == Walk(r, RootDir, StripSplit(p))
  IN IF w.exc \in Caught THEN Raises("ResourceNotFound") ELSE w

Exists(r, p) ==
  LET o == GetObjByPath(r, p)
  IN IF o.exc = "" THEN Returns(TRUE)
     ELSE IF o.exc = "ResourceNotFound" THEN Returns(FALSE)
     ELSE Raises(o.exc)

Getinfo(r, p) ==
  LET o == GetObjByPath(r, p)
  IN IF o.exc # "" THEN Raises(o.exc) ELSE Returns(NodeInfo(o.val))

InfoNames(infos) == [i \in 1..Len(infos) |-> infos[i].name]

Listdir(r, p) ==
  LET o == GetObjByPath(r, p)
  IN IF o.exc # "" THEN Raises(o.exc)
     ELSE LET s == Scandir(r, o.val)
          IN IF s.exc = "NotImplementedError" THEN Raises("DirectoryExpected")
             ELSE IF s.exc # "" THEN Raises(s.exc)
             ELSE Returns(InfoNames(s.val))

\* hasattr(obj, "scandir"): every node class inherits GitObject.scandir.
HasScandir(obj) == TRUE

\* itertools.islice(result, start, end)
Islice(s, start, end) ==
  LET hi == IF end < Len(s) THEN end ELSE Len(s)
  IN IF start >= hi THEN <<>> ELSE SubSeq(s, start + 1, hi)

ScandirPath(r, p, page) ==
  LET o == GetObjByPath(r, p)
  IN IF o.exc # "" THEN Raises(o.exc)
     ELSE IF ~HasScandir(o.val) THEN Raises("DirectoryExpected")
     ELSE LET s == Scandir(r, o.val)
          IN IF s.exc # "" THEN Raises(s.exc)
             ELSE IF page # NoPage THEN Returns(Islice(s.val, page[1], page[2]))
             ELSE Returns(s.val)

\* FS.validatepath of the host framework, on paths without "." or ".."
\* segments and without invalid characters: abspath(normpath(path)).
StartsWithSep(p) == Len(p) >= 2 /\ p[1] = ""

RequiresNormalization(p) == \E i \in 2..(Len(p) - 1) : p[i] = ""

Normpath(p) ==
  IF p = <<"">> \/ p = <<"", "">> THEN p
  ELSE IF ~RequiresNormalization(p)
       THEN (IF RStrip(p) = <<>> THEN <<"">> ELSE RStrip(p))
  ELSE LET components == SelectSeq(p, LAMBDA c : c # "")
           joined == IF components = <<>> THEN <<"">> ELSE components
       IN IF StartsWithSep(p) THEN <<"">> \o joined ELSE joined

Abspath(p) == IF StartsWithSep(p) THEN p ELSE <<"">> \o p

Validatepath(p) == Abspath(Normpath(p))

\* openbin(path, mode): the mode is not read.
Openbin(r, p, mode) ==
  LET o == GetObjByPath(r, Validatepath(p))
  IN IF o.exc # "" THEN Raises(o.exc)
     ELSE LET f == NodeOpenbin(r, o.val)
          IN IF f.exc = "NotImplementedError" THEN Raises("FileExpected")
             ELSE f

\* makedir looking the path up before refusing.
MakedirAfterLookup(r, p) ==
  IF GetObjByPath(r, p).exc # "" THEN Raises("ResourceNotFound")
  ELSE Raises("ResourceReadOnly")

Makedir(r, p) == Raises("ResourceReadOnly")

Remove(r, p) == Raises("ResourceReadOnly")

Removedir(r, p) == Raises("ResourceReadOnly")

Setinfo(r, p) == Raises("ResourceReadOnly")

\* ------------------------------------------------------------------ stream
\* io.BytesIO.read(size): size < 0 reads to the end.
StreamRead(f, size) ==
  LET n == IF size < 0 THEN Len(f.data) ELSE size
      newpos == IF f.pos + n < Len(f.data) THEN f.pos + n ELSE Len(f.data)
  IN IF Len(f.data) <= f.pos
     THEN [out |-> <<>>, pos |-> f.pos]
     ELSE [out |-> SubSeq(f.data, f.pos + 1, newpos), pos |-> newpos]

\* ------------------------------------------------------------ state machine
NoStream == [data |-> <<>>, pos |-> -1]

NoCall == [call |-> "none", arg |-> 0, from |-> 0, out |-> <<>>, exc |-> ""]

Call(name, page, mode) == [name |-> name, page |-> page, mode |-> mode]

Init ==
  /\ repo \in Repos
  /\ path \in Paths
  /\ op = Call("none", NoPage, NoMode)
  /\ result = Returns(<<>>)
  /\ stream = NoStream
  /\ sres = NoCall

Facade(name, page, res) ==
  /\ op' = Call(name, page, NoMode)
  /\ result' = res
  /\ UNCHANGED <<repo, path, stream, sres>>

DoExists == Facade("exists", NoPage, Exists(repo, path))

DoGetinfo == Facade("getinfo", NoPage, Getinfo(repo, path))

DoListdir == Facade("listdir", NoPage, Listdir(repo, path))

DoScandir == \E page \in Pages : Facade("scandir", page, ScandirPath(repo, path, page))

DoOpenbin ==
  \E mode \in Modes :
    LET f == Openbin(repo, path, mode)
    IN /\ op' = Call("openbin", NoPage, mode)
       /\ result' = IF f.exc = "" THEN Returns("stream") ELSE f
       /\ stream' = IF f.exc = "" THEN f.val ELSE stream
       /\ sres' = IF f.exc = "" THEN NoCall ELSE sres
       /\ UNCHANGED <<repo, path>>

DoMakedir == Facade("makedir", NoPage, Makedir(repo, path))

DoRemove == Facade("remove", NoPage, Remove(repo, path))

DoRemovedir == Facade("removedir", NoPage, Removedir(repo, path))

DoSetinfo == Facade("setinfo", NoPage, Setinfo(repo, path))

IsOpen == stream # NoStream

FileRead ==
  /\ IsOpen
  /\ \E size \in -1..MaxRead :
       LET rd == StreamRead(stream, size)
       IN /\ stream' = [stream EXCEPT !.pos = rd.pos]
          /\ sres' = [call |-> "read", arg |-> size, from |-> stream.pos,
                      out |-> rd.out, exc |-> ""]
  /\ UNCHANGED <<repo, path, op, result>>

FileSeek ==
  /\ IsOpen
  /\ \E offset \in 0..MaxSeek :
       /\ stream' = [stream EXCEPT !.pos = offset]
       /\ sres' = [call |-> "seek", arg |-> offset, from |-> stream.pos,
                   out |-> <<>>, exc |-> ""]
  /\ UNCHANGED <<repo, path, op, result>>

\* write inherited from io.BytesIO: the byte lands at the position.
FileWriteToBuffer(f) ==
  [stream |-> [data |-> SubSeq(f.data, 1, f.pos) \o <<0>>
                          \o SubSeq(f.data, f.pos + 2, Len(f.data)),
               pos |-> f.pos + 1],
   exc |-> ""]

\* GitFile.write and GitFile.writelines: raise, the stream untouched
FileWriteTo(f) == [stream |-> f, exc |-> "UnsupportedOperation"]

\* GitFile.readable and GitFile.writable
Readable(f) == TRUE

Writable(f) == FALSE

FileWrite ==
  /\ IsOpen
  /\ stream' = FileWriteTo(stream).stream
  /\ sres' = [call |-> "write", arg |-> 0, from |-> stream.pos,
              out |-> <<>>, exc |-> FileWriteTo(stream).exc]
  /\ UNCHANGED <<repo, path, op, result>>

FileWritelines ==
  /\ IsOpen
  /\ stream' = FileWriteTo(stream).stream
  /\ sres' = [call |-> "writelines", arg |-> 0, from |-> stream.pos,
              out |-> <<>>, exc |-> FileWriteTo(stream).exc]
  /\ UNCHANGED <<repo, path, op, result>>

FileReadable ==
  /\ IsOpen
  /\ sres' = [call |-> "readable", arg |-> 0, from |-> stream.pos,
              out |-> <<Readable(stream)>>, exc |-> ""]
  /\ UNCHANGED <<repo, path, op, result, stream>>

FileWritable ==
  /\ IsOpen
  /\ sres' = [call |-> "writable", arg |-> 0, from |-> stream.pos,
              out |-> <<Writable(stream)>>, exc |-> ""]
  /\ UNCHANGED <<repo, path, op, result, stream>>

Next ==
  \/ DoExists
  \/ DoGetinfo
  \/ DoListdir
  \/ DoScandir
  \/ DoOpenbin
  \/ DoMakedir
  \/ DoRemove
  \/ DoRemovedir
  \/ DoSetinfo
  \/ FileRead
  \/ FileSeek
  \/ FileWrite
  \/ FileWritelines
  \/ FileReadable
  \/ FileWritable

Spec == Init /\ [][Next]_vars

\* ------------------------------------------------------------------ claims
Taxonomy == {"ResourceNotFound", "DirectoryExpected", "FileExpected", "ResourceReadOnly"}

ReadOps == {"exists", "getinfo", "listdir", "scandir", "openbin"}

MutatingOps == {"makedir", "remove", "removedir", "setinfo"}

RootNames == <<"head", "tags", "branches", "remotes", "objects">>

\* The segments the last operation walked: openbin validates the path first.
PartsWalked ==
  IF op.name = "openbin" THEN StripSplit(Validatepath(path)) ELSE StripSplit(path)

\* The store's bytes of the blob the open stream was opened on.
StoreBytes == repo.objs[GetObjByPath(repo, Validatepath(path)).val.blob.id].data

\* C1: exists(p) is true and get_info(p) succeeds when p resolves; for every
\* other path exists(p) is false, without raising, and get_info(p) fails with
\* NotFound.
C1_ExistsAndGetinfoFollowResolution ==
  LET w == Walk(repo, RootDir, StripSplit(path))
  IN /\ op.name = "exists" =>
          /\ result.exc = ""
          /\ result.val = (w.exc = "")
     /\ op.name = "getinfo" =>
          IF w.exc = "" THEN result.exc = "" ELSE result.exc = "ResourceNotFound"

\* C2: every facade operation on every path succeeds or fails with one of the
\* four taxonomy errors; no raw failure reaches the caller.
C2_OnlyTaxonomyErrors ==
  op.name # "none" => result.exc \in Taxonomy \cup {""}

\* C3: on a path that resolves to a node that cannot enumerate children,
\* list_directory and scan_directory fail with DirectoryExpected; when the
\* resolution fails both fail with NotFound; scan_directory fails exactly as
\* list_directory does.
C3_ListingFailures ==
  op.name \in {"listdir", "scandir"} =>
    LET o == GetObjByPath(repo, path)
    IN /\ (o.exc = "" /\ o.val.cls = "Blob") => result.exc = "DirectoryExpected"
       /\ o.exc = "ResourceNotFound" => result.exc = "ResourceNotFound"
       /\ op.name = "scandir" => result.exc = Listdir(repo, path).exc

\* C4: a path with a non-final segment that names an absent child or a file
\* fails with NotFound in every operation that resolves it (exists answers
\* false); open_binary fails with FileExpected exactly when the path resolves
\* to a directory-kind node and returns a stream when it resolves to a blob.
C4_KindMismatchOnlyAtFinalSegment ==
  LET parts == PartsWalked
      o == Walk(repo, RootDir, parts)
      BadPrefix ==
        \E k \in 1..(Len(parts) - 1) :
          LET w == Walk(repo, RootDir, SubSeq(parts, 1, k))
          IN w.exc # "" \/ w.val.cls = "Blob"
  IN /\ (op.name \in ReadOps /\ BadPrefix) =>
          IF op.name = "exists"
          THEN result.exc = "" /\ result.val = FALSE
          ELSE result.exc = "ResourceNotFound"
     /\ op.name = "openbin" =>
          /\ (result.exc = "FileExpected") <=> (o.exc = "" /\ o.val.cls # "Blob")
          /\ (o.exc = "" /\ o.val.cls = "Blob") => result = Returns("stream")

\* C5: make_directory, remove, remove_directory and set_info fail with the
\* read-only error on every path, resolvable or not, and change nothing: the
\* repository, the path and the open stream are as before the call.
C5_MutatorsAlwaysReadOnly ==
  [][(op' # op /\ op'.name \in MutatingOps) =>
       /\ result'.exc = "ResourceReadOnly"
       /\ repo' = repo
       /\ path' = path
       /\ stream' = stream
       /\ sres' = sres]_vars

C5_Witness ==
  /\ op.name = "makedir"
  /\ GetObjByPath(repo, path).exc = "ResourceNotFound"
  /\ result.exc = "ResourceReadOnly"

\* C6: list_directory(p) followed by scan_directory(p) gives the same names in
\* the same order, or fails in the same way.
C6_ListAndScanAgree ==
  [][(op.name = "listdir" /\ op'.name = "scandir" /\ op'.page = NoPage) =>
       IF result.exc = ""
       THEN result'.exc = "" /\ InfoNames(result'.val) = result.val
       ELSE result'.exc = result.exc]_vars

\* C7: the stream open_binary returns for a blob, whatever the mode, holds the
\* store's bytes of the blob at all times; a read to the end from position 0
\* returns exactly those bytes; write and writelines fail with
\* UnsupportedOperation and leave the position where it was; readable is true
\* and writable is false.
C7_StreamIsReadOnlyView ==
  IsOpen =>
    /\ stream.data = StoreBytes
    /\ (sres.call = "read" /\ sres.from = 0 /\ sres.arg < 0) => sres.out = StoreBytes
    /\ sres.call \in {"write", "writelines"} =>
         /\ sres.exc = "UnsupportedOperation"
         /\ stream.pos = sres.from
    /\ sres.call = "readable" => sres.out = <<TRUE>>
    /\ sres.call = "writable" => sres.out = <<FALSE>>

C7_Witness ==
  /\ IsOpen
  /\ op.name = "openbin"
  /\ op.mode = "w"
  /\ sres.call = "write"
  /\ sres.from > 0
  /\ Len(stream.data) > sres.from

\* C8: get_info("/") is a directory; listing and scanning the root give head,
\* tags, branches, remotes, objects in that order, each a directory; any other
\* top-level name is NotFound.
C8_RootChildren ==
  LET parts == PartsWalked
  IN /\ (op.name = "getinfo" /\ parts = <<>>) =>
          result.exc = "" /\ result.val.is_dir
     /\ (op.name = "listdir" /\ parts = <<>>) =>
          result.exc = "" /\ result.val = RootNames
     /\ (op.name = "scandir" /\ op.page = NoPage /\ parts = <<>>) =>
          /\ result.exc = ""
          /\ InfoNames(result.val) = RootNames
          /\ \A i \in 1..Len(result.val) : result.val[i].is_dir
     /\ (op.name \in ReadOps /\ parts # <<>>
           /\ \A i \in 1..Len(RootNames) : RootNames[i] # parts[1]) =>
          IF op.name = "exists"
          THEN result.exc = "" /\ result.val = FALSE
          ELSE result.exc = "ResourceNotFound"

C8_Witness ==
  /\ op.name = "scandir"
  /\ op.page = NoPage
  /\ path = <<"", "">>
  /\ result.exc = ""
  /\ Len(result.val) = 5

\* What the store says of object id: a blob is a file of its byte length, a
\* tree is a directory of the size of the tree object.
StoreKind(id, dir, file) ==
  [is_dir |-> repo.objs[id].type # "blob",
   type |-> IF repo.objs[id].type # "blob" THEN dir ELSE file,
   size |-> IF repo.objs[id].type = "blob" THEN Len(repo.objs[id].data)
            ELSE repo.objs[id].size]

VirtualKind(dir) == [is_dir |-> TRUE, type |-> dir, size |-> 0]

KindOf(info) == [is_dir |-> info.is_dir, type |-> info.type, size |-> info.size]

\* The kinds a descriptor yielded by scanning node o may have, by its name.
YieldedKinds(o, name, dir, file) ==
  CASE o.cls = "RootDir" ->
         IF name = "head" THEN {StoreKind(repo.commits[repo.head], dir, file)}
         ELSE {VirtualKind(dir)}
    [] o.cls = "TreeDir" ->
         {StoreKind(repo.objs[o.tree.id].entries[i].id, dir, file) :
            i \in {j \in 1..Len(repo.objs[o.tree.id].entries) :
                     repo.objs[o.tree.id].entries[j].name = name}}
    [] o.cls = "RefsDir" ->
         {StoreKind(repo.commits[o.refs[i].commit], dir, file) :
            i \in {j \in 1..Len(o.refs) : o.refs[j].name[Len(o.refs[j].name)] = name}}
    [] OTHER -> {VirtualKind(dir)}

Join(p, n) ==
  IF p = <<"">> THEN Normpath(<<n>>)
  ELSE IF StartsWithSep(p) THEN Abspath(Normpath(p \o <<n>>))
  ELSE Normpath(p \o <<n>>)

\* C10: every name n listed in directory p resolves as p/n, and get_info(p/n)
\* reports the name and the is-directory flag scan_directory(p) yielded for n.
C10_ListedNamesResolve ==
  (op.name = "listdir" /\ result.exc = "") =>
    \A i \in 1..Len(result.val) :
      LET child == Join(path, result.val[i])
      IN /\ Exists(repo, child).exc = ""
         /\ Exists(repo, child).val
         /\ Getinfo(repo, child).exc = ""
         /\ Getinfo(repo, child).val.name = result.val[i]
         /\ Getinfo(repo, child).val.is_dir
              = ScandirPath(repo, path, NoPage).val[i].is_dir

====
